---- MODULE Spec2Model ----
(***************************************************************************)
(* Workshop planner: greedy capacity-bounded spatial clustering of demand  *)
(* points (src/utils.py) and the suggested-site loop of the Streamlit      *)
(* script (src/app.py).                                                    *)
(*                                                                         *)
(* Conventions of the model                                                *)
(*   - rows of a table are numbered from 1 (pandas numbers them from 0);   *)
(*   - latitudes and longitudes are integers in hundredths of a degree;    *)
(*   - real numbers are fixed-point integers with ONE = 10^8 standing for  *)
(*     1.0, products are computed in two limbs so that no intermediate     *)
(*     value leaves the 32-bit range;                                      *)
(*   - distances are integers in metres (the code's kilometres * 1000).    *)
(***************************************************************************)
EXTENDS Integers, Sequences, FiniteSets, TLC

(***************************************************************************)
(* Bounds of the model.                                                    *)
(***************************************************************************)
\* rows of the demand table in the clustering specifications
MaxPts == 3
\* rows of the demand table in the pipeline specification
MaxSitePts == 2

(***************************************************************************)
(* Fixed-point arithmetic (Python floats, module math).                    *)
(***************************************************************************)
HALF == 100 * 100
ONE == HALF * HALF
Abs(x) == IF x < 0 THEN -x ELSE x

\* the element of a one-element set; The({ e(x) : x \in {v} }) is e at the
\* value of v, with v evaluated once
The(S) == CHOOSE r \in S : TRUE

\* a * b for 0 <= a, b as the two-limb number <<hi, lo>> = hi * ONE + lo
Full(a, b) ==
    The({ LET xh == x \div HALF  xl == x % HALF
              yh == y \div HALF  yl == y % HALF
              cross == (xh * yl) + (xl * yh)
              low == ((cross % HALF) * HALF) + (xl * yl)
          IN << (xh * yh) + (cross \div HALF) + (low \div ONE), low % ONE >> :
            x \in {a}, y \in {b} })

Add2(p, q) ==
    The({ << x[1] + y[1] + ((x[2] + y[2]) \div ONE), (x[2] + y[2]) % ONE >> :
            x \in {p}, y \in {q} })

Sub2(p, q) ==
    The({ IF x[2] >= y[2] THEN << x[1] - y[1], x[2] - y[2] >>
          ELSE << x[1] - y[1] - 1, (x[2] + ONE) - y[2] >> :
            x \in {p}, y \in {q} })

\* p * k for a two-limb p and a fixed-point k in [0, 1]
Scale2(p, k) ==
    The({ Add2(Full(x[1], y), << 0, Full(x[2], y)[1] >>) : x \in {p}, y \in {k} })

\* the fixed-point product of two fixed-point numbers
MulS(a, b) ==
    The({ IF (x < 0) = (y < 0) THEN Full(Abs(x), Abs(y))[1] ELSE -Full(Abs(x), Abs(y))[1] :
            x \in {a}, y \in {b} })

\* math.radians of an angle in hundredths of a degree: c * pi / 18000
radians(c) == The({ (x * 17453) + ((x * 29252) \div 100000) : x \in {c} })

\* the last divisor pair of the Taylor polynomial that reaches 10^-8 for x*x = x2
Terms(x2) == IF x2 <= ONE \div 8 THEN 7 ELSE IF x2 <= 3 * ONE THEN 15 ELSE 23

RECURSIVE Horner(_, _, _)
\* 1 - x2/(k(k+1)) * (1 - x2/((k+2)(k+3)) * (1 - ...)), up to the pair `last`
Horner(x2, k, last) ==
    IF k > last THEN ONE
    ELSE ONE - MulS(x2 \div (k * (k + 1)), Horner(x2, k + 2, last))

\* math.cos and math.sin for |x| <= pi
cos(x) == The({ Horner(x2, 1, Terms(x2)) : x2 \in {MulS(x, x)} })
sin(x) ==
    The({ MulS(x0, Horner(x2, 2, Terms(x2) + 1)) : <<x0, x2>> \in {<<x, MulS(x, x)>>} })

RECURSIVE BisectHi(_, _, _)
\* the largest h in [lo, hi) with h * h <= v
BisectHi(v, lo, hi) ==
    IF hi - lo <= 1 THEN lo
    ELSE The({ IF mid * mid <= v THEN BisectHi(v, mid, hi) ELSE BisectHi(v, lo, mid) :
                 mid \in {(lo + hi) \div 2} })

\* (h * HALF + l)^2 <= t for a two-limb t with h * h <= t[1]
LoBelow(t, h, l) ==
    LET d == t[1] - (h * h)
        A == 2 * h * l
        B == l * l
        lhs == << A + (B \div HALF), B % HALF >>
        rhs == << (d * HALF) + (t[2] \div HALF), t[2] % HALF >>
    IN lhs[1] < rhs[1] \/ (lhs[1] = rhs[1] /\ lhs[2] <= rhs[2])

RECURSIVE BisectLo(_, _, _, _)
\* the largest l in [lo, hi) with LoBelow(t, h, l)
BisectLo(t, h, lo, hi) ==
    IF hi - lo <= 1 THEN lo
    ELSE The({ IF LoBelow(t, h, mid) THEN BisectLo(t, h, mid, hi)
               ELSE BisectLo(t, h, lo, mid) :
                 mid \in {(lo + hi) \div 2} })

\* math.sqrt of a two-limb t in [0, 1]: the largest m with m * m <= t
sqrt(t) ==
    The({ IF h = HALF THEN ONE ELSE (h * HALF) + BisectLo(t0, h, 0, HALF) :
            <<t0, h>> \in { <<t1, BisectHi(t1[1], 0, HALF + 1)>> : t1 \in {t} } })

RECURSIVE Rotate(_, _, _, _)
\* th + sin(angle(y, x) - th), repeated: the error e becomes e - sin(e)
Rotate(y, x, th, n) ==
    The({ IF Abs(d) <= 100000 \/ n = 0 THEN t + d ELSE Rotate(y, x, t + d, n - 1) :
            <<t, d>> \in { <<t1, MulS(y, cos(t1)) - MulS(x, sin(t1))>> : t1 \in {th} } })

\* math.atan2(y, x) for 0 <= y, x with y*y + x*x = 1
atan2(y, x) == The({ Rotate(y0, x0, y0, 6) : y0 \in {y}, x0 \in {x} })

\* the radius of the sphere, km
R == 6371

\* great-circle distance between two points, in metres; for one point twice
\* every term is 0 and so is the result
haversine_km(lat1, lon1, lat2, lon2) ==
    LET phi1 == radians(lat1)
        phi2 == radians(lat2)
        dphi == radians(lat2 - lat1)
        dlambda == radians(lon2 - lon1)
        sin2(x) == The({ Full(s, s) : s \in {Abs(sin(x))} })
        a == Add2(sin2(dphi \div 2), Scale2(sin2(dlambda \div 2), MulS(cos(phi1), cos(phi2))))
        c == The({ 2 * atan2(sqrt(a0), sqrt(Sub2(<<ONE, 0>>, a0))) : a0 \in {a} })
    IN IF lat1 = lat2 /\ lon1 = lon2 THEN 0
       ELSE The({ (R * (c0 \div 100000)) + ((R * (c0 % 100000)) \div 100000) : c0 \in {c} })

(***************************************************************************)
(* The inputs the model draws from.                                        *)
(***************************************************************************)
\* postal codes with their coordinates, in hundredths of a degree
Places ==
    { [pincode |-> 560001, lat |-> 1290, lon |-> 7760],
      [pincode |-> 560002, lat |-> 1291, lon |-> 7761],
      [pincode |-> 500001, lat |-> 2000, lon |-> 8000] }

\* a cell of the projected_ro column: a number, or something that is none
Cells ==
    { [num |-> FALSE, val |-> 0],
      [num |-> TRUE, val |-> 3000],
      [num |-> TRUE, val |-> 4000] }

Rows ==
    { [pincode |-> p.pincode, lat |-> p.lat, lon |-> p.lon, projected_ro |-> c] :
        p \in Places, c \in Cells }

Row(pin, la, lo, w) ==
    [pincode |-> pin, lat |-> la, lon |-> lo, projected_ro |-> [num |-> TRUE, val |-> w]]

\* P1, P2, P3 of the three-point scenario
ScenarioTable ==
    << Row(560001, 1290, 7760, 4000),
       Row(560002, 1291, 7761, 3000),
       Row(500001, 2000, 8000, 5000) >>

TablesUpTo(n) == UNION { [1..k -> Rows] : k \in 0..n }

\* values of the "Max RO per cluster" slider (1000 to 10000 in steps of 500)
MaxRoChoices == {3500, 6000}

\* values of the "Min distance from existing workshop (km)" slider (1 to 20)
MinDistChoices == {1, 5, 20}

Workshops ==
    { [workshop_name |-> "north", pincode |-> 560003, lat |-> 1293, lon |-> 7762],
      [workshop_name |-> "far", pincode |-> 500001, lat |-> 2000, lon |-> 8000] }

WorkshopTables ==
    {<<>>} \cup { <<w>> : w \in Workshops } \cup { <<v, w>> : v, w \in Workshops }

(***************************************************************************)
(* State.                                                                  *)
(***************************************************************************)
VARIABLES
    df,               \* the demand table handed to greedy_spatial_clustering
    max_ro,           \* the capacity cap
    working,          \* the function's copy of df, projected_ro made numeric
    unassigned,       \* set of row numbers not yet in a cluster
    clusters,         \* the clusters emitted so far, in creation order
    cluster_members,  \* row numbers of the cluster being built, in order added
    cluster_total,    \* its running total
    centroid_lat,     \* its centroid
    centroid_lon,
    pc,               \* "outer", "inner", "returned", "finished"
    ws,               \* the workshop (facility) table
    min_dist_km,      \* the siting threshold
    suggested,        \* the suggested-site records built so far
    run,              \* 1 in the first execution of the script, 2 in a rerun
    first_clusters    \* what the first execution's clustering returned

vars ==
    << df, max_ro, working, unassigned, clusters, cluster_members, cluster_total,
       centroid_lat, centroid_lon, pc, ws, min_dist_km, suggested, run, first_clusters >>

(***************************************************************************)
(* greedy_spatial_clustering                                               *)
(***************************************************************************)
\* pd.to_numeric(..., errors="coerce").fillna(0) on one cell
to_numeric_fillna(cell) == IF cell.num THEN cell.val ELSE 0

\* working = df.copy().reset_index(drop=True) with projected_ro made numeric
working_copy(table) ==
    [i \in DOMAIN table |->
        [pincode |-> table[i].pincode, lat |-> table[i].lat, lon |-> table[i].lon,
         projected_ro |-> to_numeric_fillna(table[i].projected_ro)]]

\* working.at[idx, "projected_ro"]
projected_ro(idx) == working[idx].projected_ro

\* max(U, key=...): a set of row numbers is iterated in increasing order and
\* max keeps the first of the greatest elements; key is the function idx -> key
max_key(U, key) ==
    The({ CHOOSE p \in keyed :
              \A q \in keyed : q[1] < p[1] \/ (q[1] = p[1] /\ p[2] <= q[2]) :
            keyed \in { { <<key[i], i>> : i \in U } } })[2]

\* min(U, key=...): the first of the least elements
min_key(U, key) ==
    The({ CHOOSE p \in keyed :
              \A q \in keyed : p[1] < q[1] \/ (q[1] = p[1] /\ p[2] <= q[2]) :
            keyed \in { { <<key[i], i>> : i \in U } } })[2]

\* the key of the nearest-point search: distance of a row to the current centroid
centroid_distance(idx) ==
    haversine_km(centroid_lat, centroid_lon, working[idx].lat, working[idx].lon)

\* a seed of least weight
seed_lightest == min_key(unassigned, [idx \in unassigned |-> projected_ro(idx)])

\* a seed by position only: the first unassigned row
seed_first == CHOOSE i \in unassigned : \A j \in unassigned : i <= j

\* seed = unassigned index with max projected_ro
seed == max_key(unassigned, [idx \in unassigned |-> projected_ro(idx)])

\* the unassigned row farthest from the centroid
nearest_farthest == max_key(unassigned, [idx \in unassigned |-> centroid_distance(idx)])

\* a tie-break that differs between executions: the first of the nearest rows
\* in the first execution, the last of them in a rerun
nearest_by_run ==
    IF run = 1
    THEN min_key(unassigned, [idx \in unassigned |-> centroid_distance(idx)])
    ELSE min_key(unassigned, [idx \in unassigned |-> (centroid_distance(idx) * 16) - idx])

\* nearest unassigned index to the current centroid
nearest == min_key(unassigned, [idx \in unassigned |-> centroid_distance(idx)])

\* a remove that leaves the set as it is
remove_nothing(U, idx) == U

\* unassigned.remove(idx)
remove(U, idx) == U \ {idx}

\* the total overwritten with the weight of the row added
add_ro_overwrite(total, idx) == projected_ro(idx)

\* cluster_total += working.at[idx, "projected_ro"]
add_ro(total, idx) == total + projected_ro(idx)

\* a loop that still runs when the total equals the cap
inner_loop_condition_inclusive == cluster_total <= max_ro /\ unassigned # {}

\* a hard cap: the loop stops when the nearest row does not fit
inner_loop_condition_fits ==
    /\ cluster_total < max_ro
    /\ unassigned # {}
    /\ cluster_total + projected_ro(nearest) <= max_ro

\* the condition of the inner while loop
inner_loop_condition == cluster_total < max_ro /\ unassigned # {}

RECURSIVE SumOver(_, _)
\* sum of f[i] over the sequence of row numbers members
SumOver(f, members) ==
    IF members = <<>> THEN 0 ELSE f[Head(members)] + SumOver(f, Tail(members))

\* n / d rounded to the nearest hundredth of a degree
Quotient(n, d) == ((2 * n) + d) \div (2 * d)

\* the centroid of the members: weighted by projected_ro, or the plain mean
\* when the weights sum to 0
weighted_centroid(members) ==
    LET weights == [i \in DOMAIN working |-> working[i].projected_ro]
        wlats == [i \in DOMAIN working |-> working[i].lat * working[i].projected_ro]
        wlons == [i \in DOMAIN working |-> working[i].lon * working[i].projected_ro]
        lats == [i \in DOMAIN working |-> working[i].lat]
        lons == [i \in DOMAIN working |-> working[i].lon]
        wsum == SumOver(weights, members)
    IN IF wsum > 0
       THEN << Quotient(SumOver(wlats, members), wsum), Quotient(SumOver(wlons, members), wsum) >>
       ELSE << Quotient(SumOver(lats, members), Len(members)),
               Quotient(SumOver(lons, members), Len(members)) >>

\* function entry: the copy, the unassigned set, no clusters
Enter(table, cap) ==
    /\ df = table
    /\ max_ro = cap
    /\ working = working_copy(table)
    /\ unassigned = DOMAIN table
    /\ clusters = <<>>
    /\ cluster_members = <<>>
    /\ cluster_total = 0
    /\ centroid_lat = 0
    /\ centroid_lon = 0
    /\ pc = "outer"

Init ==
    /\ \E table \in TablesUpTo(MaxPts) \cup {ScenarioTable} : \E cap \in MaxRoChoices :
           Enter(table, cap)
    /\ ws = <<>>
    /\ min_dist_km = 5
    /\ suggested = <<>>
    /\ run = 1
    /\ first_clusters = <<>>

\* one pass of the outer loop's head: pick the seed and start a cluster
PickSeed ==
    /\ pc = "outer"
    /\ unassigned # {}
    /\ \E s \in {seed} :
          /\ cluster_members' = << s >>
          /\ unassigned' = remove(unassigned, s)
          /\ cluster_total' = projected_ro(s)
          /\ centroid_lat' = working[s].lat
          /\ centroid_lon' = working[s].lon
    /\ pc' = "inner"
    /\ UNCHANGED << df, max_ro, working, clusters, ws, min_dist_km, suggested, run,
                    first_clusters >>

\* an inner loop pass that leaves the added row in unassigned
AddNearestKeep ==
    /\ pc = "inner"
    /\ inner_loop_condition
    /\ \E n \in {nearest} :
       \E centroid \in {weighted_centroid(Append(cluster_members, n))} :
          /\ cluster_members' = Append(cluster_members, n)
          /\ cluster_total' = add_ro(cluster_total, n)
          /\ centroid_lat' = centroid[1]
          /\ centroid_lon' = centroid[2]
    /\ UNCHANGED << df, max_ro, working, unassigned, clusters, pc, ws, min_dist_km,
                    suggested, run, first_clusters >>

\* one pass of the inner loop: add the nearest row and move the centroid
AddNearest ==
    /\ pc = "inner"
    /\ inner_loop_condition
    /\ \E n \in {nearest} :
       \E centroid \in {weighted_centroid(Append(cluster_members, n))} :
          /\ cluster_members' = Append(cluster_members, n)
          /\ unassigned' = remove(unassigned, n)
          /\ cluster_total' = add_ro(cluster_total, n)
          /\ centroid_lat' = centroid[1]
          /\ centroid_lon' = centroid[2]
    /\ UNCHANGED << df, max_ro, working, clusters, pc, ws, min_dist_km, suggested, run,
                    first_clusters >>

\* the inner loop is left: the finished cluster is appended
EmitCluster ==
    /\ pc = "inner"
    /\ ~ inner_loop_condition
    /\ clusters' = Append(clusters,
                          [members |-> cluster_members,
                           total_ro |-> cluster_total,
                           centroid |-> << centroid_lat, centroid_lon >>])
    /\ pc' = "outer"
    /\ UNCHANGED << df, max_ro, working, unassigned, cluster_members, cluster_total,
                    centroid_lat, centroid_lon, ws, min_dist_km, suggested, run,
                    first_clusters >>

\* the outer loop is left: return clusters
Return ==
    /\ pc = "outer"
    /\ unassigned = {}
    /\ pc' = "returned"
    /\ UNCHANGED << df, max_ro, working, unassigned, clusters, cluster_members,
                    cluster_total, centroid_lat, centroid_lon, ws, min_dist_km,
                    suggested, run, first_clusters >>

Next == PickSeed \/ AddNearest \/ EmitCluster \/ Return

Spec == Init /\ [][Next]_vars

\* the loops are sequential code: a step that can be taken is taken
SpecLive == Init /\ [][Next]_vars /\ WF_vars(Next)

(***************************************************************************)
(* A rerun of the script: Streamlit executes app.py again from the top on  *)
(* every interaction, so the same table is clustered a second time.        *)
(***************************************************************************)
Rerun ==
    /\ pc = "returned"
    /\ run = 1
    /\ run' = 2
    /\ first_clusters' = clusters
    /\ working' = working_copy(df)
    /\ unassigned' = DOMAIN df
    /\ clusters' = <<>>
    /\ cluster_members' = <<>>
    /\ cluster_total' = 0
    /\ centroid_lat' = 0
    /\ centroid_lon' = 0
    /\ pc' = "outer"
    /\ UNCHANGED << df, max_ro, ws, min_dist_km, suggested >>

NextTwice == Next \/ Rerun

SpecTwice == Init /\ [][NextTwice]_vars

(***************************************************************************)
(* The suggested-locations loop of app.py.                                 *)
(***************************************************************************)
\* members_df = working.loc[cluster_members].copy().reset_index(drop=True)
members_df(c) == [k \in 1..Len(c.members) |-> working[c.members[k]]]

\* the member closest to the centroid: its pincode and coordinates
find_centroid_pincode(members, centroid) ==
    IF members = <<>>
    THEN [none |-> TRUE, pincode |-> 0, lat |-> 0, lon |-> 0]
    ELSE LET distances == [k \in DOMAIN members |->
                              haversine_km(centroid[1], centroid[2],
                                           members[k].lat, members[k].lon)]
         IN The({ [none |-> FALSE, pincode |-> members[idx].pincode,
                   lat |-> members[idx].lat, lon |-> members[idx].lon] :
                    idx \in {min_key(DOMAIN members, distances)} })

\* float("inf")
Inf == [inf |-> TRUE, m |-> 0]

\* no sentinel: distance 0 when there is no workshop
nearest_distance_zero(lat, lon, workshops_df) ==
    IF workshops_df = <<>>
    THEN [inf |-> FALSE, m |-> 0]
    ELSE The({ [inf |-> FALSE, m |-> CHOOSE d \in dists : \A e \in dists : d <= e] :
                 dists \in { { haversine_km(lat, lon, workshops_df[k].lat,
                                            workshops_df[k].lon) :
                                 k \in DOMAIN workshops_df } } })

\* distance in metres from (lat, lon) to the nearest workshop, Inf when there is none
nearest_distance_to_workshops(lat, lon, workshops_df) ==
    IF workshops_df = <<>>
    THEN Inf
    ELSE The({ [inf |-> FALSE, m |-> CHOOSE d \in dists : \A e \in dists : d <= e] :
                 dists \in { { haversine_km(lat, lon, workshops_df[k].lat,
                                            workshops_df[k].lon) :
                                 k \in DOMAIN workshops_df } } })

\* is_far = dist_to_nearest >= min_dist_km
is_far(dist_to_nearest, min_km) == dist_to_nearest.inf \/ dist_to_nearest.m >= min_km * 1000

InitPipeline ==
    /\ \E table \in TablesUpTo(MaxSitePts) : \E cap \in MaxRoChoices : Enter(table, cap)
    /\ ws \in WorkshopTables
    /\ min_dist_km \in MinDistChoices
    /\ suggested = <<>>
    /\ run = 1
    /\ first_clusters = <<>>

\* one pass of the loop over the clusters
Suggest ==
    /\ pc = "returned"
    /\ Len(suggested) < Len(clusters)
    /\ \E i \in {Len(suggested) + 1} :
       \E site \in {find_centroid_pincode(members_df(clusters[i]), clusters[i].centroid)} :
       \E dist_to_nearest \in {nearest_distance_to_workshops(site.lat, site.lon, ws)} :
          suggested' = Append(suggested,
                              [cluster_id |-> i,
                               centroid_pincode |-> site.pincode,
                               centroid_lat |-> site.lat,
                               centroid_lon |-> site.lon,
                               total_ro |-> clusters[i].total_ro,
                               dist_to_nearest_workshop_km |-> dist_to_nearest,
                               suggested |-> is_far(dist_to_nearest, min_dist_km)])
    /\ UNCHANGED << df, max_ro, working, unassigned, clusters, cluster_members,
                    cluster_total, centroid_lat, centroid_lon, pc, ws, min_dist_km, run,
                    first_clusters >>

\* the loop is left: suggested_df is built
Finish ==
    /\ pc = "returned"
    /\ Len(suggested) = Len(clusters)
    /\ pc' = "finished"
    /\ UNCHANGED << df, max_ro, working, unassigned, clusters, cluster_members,
                    cluster_total, centroid_lat, centroid_lon, ws, min_dist_km,
                    suggested, run, first_clusters >>

NextPipeline == Next \/ Suggest \/ Finish

SpecPipeline == InitPipeline /\ [][NextPipeline]_vars

(***************************************************************************)
(* Vocabulary of the properties.                                           *)
(***************************************************************************)
Indices == DOMAIN working

\* the clusters whose membership is fixed or being built: the emitted ones and,
\* inside the inner loop, the one under construction
Built ==
    IF pc = "inner"
    THEN Append(clusters, [members |-> cluster_members, total_ro |-> cluster_total,
                           centroid |-> << centroid_lat, centroid_lon >>])
    ELSE clusters

\* how often row idx occurs in the member lists of the clusters cs
Occurrences(cs, idx) ==
    Cardinality(UNION { { <<k, j>> : j \in { p \in DOMAIN cs[k].members :
                                                 cs[k].members[p] = idx } } :
                          k \in DOMAIN cs })

Weights == [i \in Indices |-> working[i].projected_ro]

RECURSIVE SumTotals(_)
SumTotals(cs) == IF cs = <<>> THEN 0 ELSE Head(cs).total_ro + SumTotals(Tail(cs))

RECURSIVE SumInput(_)
\* the sum of the projected_ro column of a table, made numeric
SumInput(table) ==
    IF table = <<>> THEN 0
    ELSE to_numeric_fillna(Head(table).projected_ro) + SumInput(Tail(table))

\* the rows in clusters 1 .. k-1 of cs
Before(cs, k) ==
    UNION { { cs[j].members[p] : p \in DOMAIN cs[j].members } : j \in 1..(k - 1) }

Shape(cs) == [k \in DOMAIN cs |-> [members |-> cs[k].members, total_ro |-> cs[k].total_ro]]

SamePlace(i, j) == working[i].lat = working[j].lat /\ working[i].lon = working[j].lon

(***************************************************************************)
(* C1: the clusters partition the input rows. In every state each row is   *)
(* either still unassigned or occurs exactly once in the member lists of   *)
(* the clusters built so far, never both; when the function has returned,  *)
(* nothing is unassigned and every row occurs in exactly one cluster.      *)
(***************************************************************************)
C1_Partition ==
    /\ \A idx \in Indices :
          Occurrences(Built, idx) + (IF idx \in unassigned THEN 1 ELSE 0) = 1
    /\ unassigned \subseteq Indices
    /\ \A k \in DOMAIN Built : \A j \in DOMAIN Built[k].members :
          Built[k].members[j] \in Indices
    /\ pc = "returned" =>
          /\ unassigned = {}
          /\ \A idx \in Indices : Occurrences(clusters, idx) = 1

C1_Witness ==
    /\ pc = "returned"
    /\ Len(df) = MaxPts
    /\ Len(clusters) >= 2
    /\ \E k \in DOMAIN clusters : Len(clusters[k].members) >= 2

(***************************************************************************)
(* C2: weight conservation. The total of every cluster, accumulated while  *)
(* the cluster grows, is the sum of the weights of its members, and the    *)
(* totals of the returned clusters add up to the sum of the projected_ro   *)
(* column of the input.                                                    *)
(***************************************************************************)
C2_WeightConservation ==
    /\ \A k \in DOMAIN Built : Built[k].total_ro = SumOver(Weights, Built[k].members)
    /\ pc = "returned" => SumTotals(clusters) = SumInput(df)

C2_Witness ==
    /\ pc = "returned"
    /\ Len(clusters) >= 2
    /\ \E k \in DOMAIN clusters :
          Len(clusters[k].members) >= 2 /\ clusters[k].total_ro > max_ro
    /\ \E i \in DOMAIN df : ~ df[i].projected_ro.num

(***************************************************************************)
(* C3: a row whose weight exceeds max_ro ends up alone in its cluster, and *)
(* that cluster's total exceeds max_ro. Such a row is never added to a     *)
(* cluster as a nearest neighbour, and nothing is added to its cluster.    *)
(***************************************************************************)
C3_HeavySingleton ==
    \A idx \in Indices : Weights[idx] > max_ro =>
        /\ \A k \in DOMAIN Built : \A j \in DOMAIN Built[k].members :
              Built[k].members[j] = idx => Built[k].members = << idx >>
        /\ pc = "returned" =>
              \E k \in DOMAIN clusters :
                  clusters[k].members = << idx >> /\ clusters[k].total_ro > max_ro

C3_Witness ==
    /\ pc = "returned"
    /\ \E i, j \in Indices :
          /\ Weights[i] > max_ro
          /\ Weights[j] < max_ro
          /\ SamePlace(i, j)
    /\ \E k \in DOMAIN clusters : Len(clusters[k].members) >= 2

(***************************************************************************)
(* C4: the cap is soft and checked before each addition. For every cluster *)
(* with more than one member, the total without the member added last is   *)
(* strictly below max_ro.                                                  *)
(***************************************************************************)
C4_SoftCap ==
    \A k \in DOMAIN Built :
        LET m == Built[k].members
        IN Len(m) > 1 => Built[k].total_ro - Weights[m[Len(m)]] < max_ro

\* a cluster that overshoots the cap with its last member, and rows left for
\* another cluster
C4_Witness ==
    /\ pc = "returned"
    /\ Len(clusters) >= 2
    /\ \E k \in DOMAIN clusters :
          /\ Len(clusters[k].members) > 1
          /\ clusters[k].total_ro > max_ro
          /\ k < Len(clusters)

(***************************************************************************)
(* C5 as stated: for P1(4000), P2(3000), P3(5000) and max_ro = 6000 the    *)
(* result is {P3} with total 5000, then {P1, P2} with total 7000.          *)
(***************************************************************************)
C5_AsStated ==
    (pc = "returned" /\ df = ScenarioTable /\ max_ro = 6000) =>
        Shape(clusters) = << [members |-> << 3 >>, total_ro |-> 5000],
                             [members |-> << 1, 2 >>, total_ro |-> 7000] >>

(***************************************************************************)
(* C5, amended: for P1(4000), P2(3000), P3(5000) and max_ro = 6000 the     *)
(* result is two clusters in creation order: the cluster seeded at P3,     *)
(* which takes the nearest point P2 because 5000 < 6000, {P3, P2} with     *)
(* total 8000, then {P1} with total 4000.                                  *)
(***************************************************************************)
C5_Scenario ==
    (pc = "returned" /\ df = ScenarioTable /\ max_ro = 6000) =>
        Shape(clusters) = << [members |-> << 3, 2 >>, total_ro |-> 8000],
                             [members |-> << 1 >>, total_ro |-> 4000] >>

C5_Witness == pc = "returned" /\ df = ScenarioTable /\ max_ro = 6000

(***************************************************************************)
(* C6: with an empty workshop table nearest_distance_to_workshops returns  *)
(* the infinite sentinel for every cluster's representative point and the  *)
(* record of every cluster is flagged suggested, whatever min_dist_km is;  *)
(* in general the flag is distance >= min_dist_km, the bound included.     *)
(***************************************************************************)
C6_EmptyWorkshops ==
    \A k \in DOMAIN suggested :
        /\ ws = <<>> =>
              /\ suggested[k].dist_to_nearest_workshop_km = Inf
              /\ suggested[k].suggested
        /\ ws # <<>> =>
              /\ ~ suggested[k].dist_to_nearest_workshop_km.inf
              /\ suggested[k].suggested <=>
                    suggested[k].dist_to_nearest_workshop_km.m >= min_dist_km * 1000

C6_Witness ==
    /\ pc = "finished"
    /\ ws = <<>>
    /\ min_dist_km = 20
    /\ Len(suggested) >= 2
    /\ Len(suggested) = Len(clusters)

C8_SeedIsMax ==
    /\ \A k \in DOMAIN Built : \A idx \in Indices \ Before(Built, k) :
          Weights[Built[k].members[1]] >= Weights[idx]
    /\ \A k, l \in DOMAIN Built :
          k <= l => Weights[Built[k].members[1]] >= Weights[Built[l].members[1]]
    /\ \A k, l \in DOMAIN Built : \A j \in DOMAIN Built[l].members :
          k <= l => Weights[Built[k].members[1]] >= Weights[Built[l].members[j]]

C8_Witness ==
    /\ pc = "returned"
    /\ Len(clusters) >= 2
    /\ Weights[clusters[1].members[1]] > Weights[clusters[2].members[1]]
    /\ clusters[1].members[1] > clusters[2].members[1]
    /\ \E k \in DOMAIN clusters : Len(clusters[k].members) >= 2

(***************************************************************************)
(* C9: the function terminates. Every pass of the outer loop's head and    *)
(* every pass of the inner loop removes exactly one row from unassigned    *)
(* and no step adds one, the function returns, every cluster has at least  *)
(* one member, and there are at most as many clusters as rows (none for    *)
(* an empty table).                                                        *)
(***************************************************************************)
C9_Terminates ==
    /\ <>(pc = "returned")
    /\ [][ /\ unassigned' \subseteq unassigned
           /\ pc' = "inner" =>
                 Cardinality(unassigned') = Cardinality(unassigned) - 1 ]_vars
    /\ [](/\ \A k \in DOMAIN Built : Len(Built[k].members) >= 1
          /\ Len(Built) <= Len(df)
          /\ (pc = "returned" /\ df = <<>>) => clusters = <<>>)

C9_Witness ==
    /\ pc = "returned"
    /\ Len(df) = MaxPts
    /\ Len(clusters) = Len(df)

(***************************************************************************)
(* C10: only the last cluster can be under capacity. A cluster is left     *)
(* only when its total has reached max_ro or nothing is unassigned, so     *)
(* every cluster but the last returned one has total_ro >= max_ro; when    *)
(* the table has rows, all of weight 0, the result is one cluster with     *)
(* every row (max_ro is positive).                                         *)
(***************************************************************************)
C10_OnlyLastUnderCapacity ==
    /\ max_ro > 0
    /\ \A k \in DOMAIN clusters :
          (k < Len(clusters) \/ pc = "inner" \/ unassigned # {}) =>
              clusters[k].total_ro >= max_ro
    /\ (pc = "returned" /\ df # <<>> /\ \A i \in Indices : Weights[i] = 0) =>
          /\ Len(clusters) = 1
          /\ { clusters[1].members[j] : j \in DOMAIN clusters[1].members } = Indices

C10_Witness ==
    /\ pc = "returned"
    /\ Len(clusters) >= 2
    /\ clusters[Len(clusters)].total_ro < max_ro
    /\ clusters[Len(clusters)].total_ro > 0

====
